---- MODULE Spec2Model ----
(***************************************************************************)
(* The instrumented store clients of NHYCRaymond/calorie (pkg/redis,       *)
(* pkg/mongodb, pkg/mysql) and the metrics client (pkg/metrics) they      *)
(* record into.  Goroutines call wrapper operations of store clients; a   *)
(* wrapper captures the start time, delegates to the driver, finishes the *)
(* operation (operation.end / Client.recordMetrics) and returns.  The     *)
(* metrics client creates its series lazily in unsynchronised maps and    *)
(* registers them with the process-wide Prometheus default registry.      *)
(***************************************************************************)
EXTENDS Integers, Sequences, FiniteSets, TLC

\* ------------------------------------------------------------------ bounds
NumSinks == 2       \* metrics.Client instances that may be constructed
NumCallers == 2     \* goroutines calling the store clients
MaxCalls == 2       \* wrapper calls begun in one behaviour
MaxBusy == 0        \* wrapper calls in flight while a store client is constructed
MaxTime == 6        \* milliseconds the clock runs for
MaxText == 3        \* fragments in the text of a driver error
MaxWraps == 2       \* times wrapError is called on the same arguments
MaxInits == 3       \* InitLogger calls begun in one behaviour
MaxRequests == 3    \* HTTP requests served in one behaviour
LogChanCap == 1     \* capacity of logChan (1000 in the source)
RateBurst == 1      \* config.RateBurst, the tokens the limiter holds when full
MaxHTTP == 3        \* HTTP requests that enter the Prometheus middleware

Callers == 1..NumCallers
NoSink == 0         \* a nil *metrics.Client

\* ------------------------------------------------------- program constants
CodeNotFound == 404
CodeServerError == 500

Kinds == {"redis", "mongodb", "mysql"}

\* The instrumented operation modelled for each package.  Within a package
\* every wrapper has the same shape (begin, driver call, finish, return) and
\* differs from the others in its operation name only.
Ops(kind) ==
  CASE kind = "redis" -> {"get"}
    [] kind = "mongodb" -> {"find_one"}
    [] kind = "mysql" -> {"query"}
    [] OTHER -> {}

\* The collection every modelled MongoDB call addresses.
Collection == "users"

\* ------------------------------------------------------------------ errors
\* An error value: kind "nil" is the nil error, "redis.Nil" the go-redis
\* sentinel, "driver" any other driver error, "*errors.Error" a pkg/errors
\* value.  Message is the error text as a sequence of fragments.
Err(kind, code, message, details) ==
  [kind |-> kind, Code |-> code, Message |-> message, Details |-> details]

NoErr == Err("nil", 0, <<>>, <<>>)
RedisNil == Err("redis.Nil", 0, <<"redis: nil">>, <<>>)
ErrNotFound == Err("driver", 0, <<"no rows or documents in result">>, <<>>)
ErrTimeout == Err("driver", 0, <<"i/o", "timeout">>, <<>>)
ErrRefused == Err("driver", 0, <<"dial tcp", "connection refused">>, <<>>)

\* The errors a driver call of the package may return.
DriverErrors(kind) ==
  IF kind = "redis" THEN {RedisNil, ErrTimeout} ELSE {ErrNotFound}

\* What a delegated driver call may return: a value with a nil error, or the
\* zero value with an error.
DriverOutcomes(kind) ==
  IF kind \notin Kinds THEN {}
  ELSE {[res |-> "v", err |-> NoErr]} \cup
       {[res |-> "zero", err |-> e] : e \in DriverErrors(kind)}

Contains_wholeText(text, sub) == text = <<sub>>

\* strings.Contains(err.Error(), sub) on the fragments of the text
Contains(text, sub) == \E i \in 1..Len(text) : text[i] = sub

\* errors.New(code, message)
New(code, message) == Err("*errors.Error", code, message, <<>>)

\* (*Error).WithDetails(details...)
WithDetails(e, detail) == [e EXCEPT !.Details = Append(@, detail)]

wrapError_nilOnNotFound(err, operation) ==
  IF err = NoErr \/ err = RedisNil THEN NoErr
  ELSE WithDetails(New(CodeServerError, err.Message), operation)

\* redis wrapError
wrapError(err, operation) ==
  IF err = NoErr THEN NoErr
  ELSE IF err = RedisNil
    THEN WithDetails(New(CodeNotFound, <<"key not found">>), operation)
  ELSE IF Contains(err.Message, "connection refused")
    THEN WithDetails(New(CodeServerError, <<"connection refused">>), operation)
  ELSE IF Contains(err.Message, "timeout")
    THEN WithDetails(New(CodeServerError, <<"operation timeout">>), operation)
  ELSE WithDetails(New(CodeServerError, err.Message), operation)

getStatus_notFoundIsSuccess(err) ==
  IF err = NoErr \/ err = RedisNil \/ err = ErrNotFound THEN "success" ELSE "error"

\* getStatus, identical in the three packages
getStatus(err) == IF err = NoErr THEN "success" ELSE "error"

\* ---------------------------------------------------------- metric series
HistogramName(kind) ==
  CASE kind = "redis" -> "redis_operation_duration_seconds"
    [] kind = "mongodb" -> "mongodb_operation_duration_seconds"
    [] kind = "mysql" -> "mysql_operation_duration_seconds"

CounterName(kind) ==
  CASE kind = "redis" -> "redis_operations_total"
    [] kind = "mongodb" -> "mongodb_operations_total"
    [] kind = "mysql" -> "mysql_operations_total"

\* the label names passed to Histogram(...) at registration
HistogramLabels(kind) ==
  IF kind = "mongodb" THEN <<"operation", "collection", "service">>
  ELSE <<"operation", "service">>

\* the label names passed to Counter(...) at registration
CounterLabels(kind) ==
  IF kind = "mongodb" THEN <<"operation", "collection", "status", "service">>
  ELSE <<"operation", "status", "service">>

\* the values passed to Histogram(...).WithLabelValues(...)
HistogramValues(kind, op, service) ==
  IF kind = "mongodb" THEN <<op, Collection, service>> ELSE <<op, service>>

CounterValues_statusFirst(kind, op, status, service) ==
  IF kind = "mongodb" THEN <<op, Collection, status, service>>
  ELSE <<status, op, service>>

\* the values passed to Counter(...).WithLabelValues(...)
CounterValues(kind, op, status, service) ==
  IF kind = "mongodb" THEN <<op, Collection, status, service>>
  ELSE <<op, status, service>>

\* A *prometheus.CounterVec / *prometheus.HistogramVec: the id-th collector of
\* that name, made through metrics client `sink`.
Handle(name, labels, sink, id) ==
  [name |-> name, labels |-> labels, sink |-> sink, id |-> id]

NoHandle == Handle("", <<>>, 0, 0)
NoKey == [h |-> NoHandle, lv |-> <<>>]
NoOut == [res |-> "", err |-> NoErr]
EmptyMap == [x \in {} |-> 0]

\* A store client: its package, whether its config is the package's
\* DefaultConfig or the caller's own Config, the EnableMetrics flag of an own
\* Config, and its metrics client.  A client never changes after NewClient.
StoreClient(kind, config, enable, metrics) ==
  [kind |-> kind, config |-> config, EnableMetrics |-> enable, metrics |-> metrics]

NoClient == StoreClient("", "", FALSE, NoSink)

\* -------------------------------------------------------------------- state
VARIABLES
  DefaultConfig,  \* per package: the EnableMetrics flag of its DefaultConfig
  numSinks,       \* metrics clients constructed so far (they are 1..numSinks)
  client,         \* the store client the goroutines share (the latest constructed)
  registry,       \* collectors registered with prometheus' default registry
  histograms,     \* per metrics client: its histograms map
  counters,       \* per metrics client: its counters map
  histVal,        \* observation count of each histogram series
  ctrVal,         \* value of each counter series
  sinkCalls,      \* per metrics client: calls received (lookups, Observe, Inc)
  gated,          \* per metrics client: finishes that passed the enable gate
  call,           \* per goroutine: its wrapper call
  callsBegun,     \* wrapper calls begun so far
  crashed         \* the runtime stopped the process (fatal error)

\* the state of the store clients and the metrics clients
storeVars == <<DefaultConfig, numSinks, client, client, registry, histograms, counters,
               histVal, ctrVal, sinkCalls, gated, call, callsBegun, crashed>>

\* The other components of the repository.  Each is exercised by a
\* specification of its own, in which the remaining components stay as they
\* are at start.
VARIABLES
  now,            \* the monotonic clock, in milliseconds
  timed,          \* a wrapper call followed against the clock
  observed,       \* the durations the histogram has observed, in milliseconds
  counted,        \* the (operation, status) series the counter has incremented
  wrapArgs,       \* the arguments of a wrapError call
  wrapped,        \* what wrapError returned for them
  isArgs,         \* the receiver and the target of an Error.Is call
  isResult,       \* what Is returned for them
  log,            \* pkg/logger: the process-wide logger
  mu,             \* pkg/logger: the holder of the lock
  initCall,       \* per goroutine: its InitLogger call
  exited,         \* pkg/logger: logrus.Fatal ended the process
  loggers,        \* pkg/logger: loggers made by logrus.New() so far
  acquired,       \* pkg/logger: times mu has been locked so far
  txn,            \* per goroutine: its WithTransaction call
  requestFieldsPool, \* gin: how often each fields map is in the pool
  fieldsOf,       \* gin: per fields map made so far, key -> request that wrote it
  logChan,        \* gin: the fields maps queued for logging
  req,            \* gin: per handler goroutine, the request it serves
  proc,           \* gin: the processLogs goroutine
  logged,         \* gin: the records logged so far
  enqueued,       \* gin: per request, the record it put on logChan
  requests,       \* gin: requests begun so far
  limiter,        \* gin: the tokens the rate limiter holds
  middleware,     \* prometheus: the middleware built, and its config
  http,           \* prometheus: per handler goroutine, the request it serves
  requestCounter, \* prometheus: http_requests_total, per label values
  successCounter, \* prometheus: http_requests_success_total
  failureCounter, \* prometheus: http_requests_failure_total
  concurrentRequests, \* prometheus: http_concurrent_requests
  entered,        \* prometheus: requests that have entered the middleware
  responses,      \* prometheus: per status, requests the middleware returned from
  fatal           \* gin: the runtime stopped the process (fatal error)

timeVars == <<now, timed, observed, counted>>
wrapVars == <<wrapArgs, wrapped>>
isVars == <<isArgs, isResult>>
loggerVars == <<log, mu, initCall, exited, loggers, acquired>>
txVars == <<txn>>
ginVars == <<requestFieldsPool, fieldsOf, logChan, req, proc, logged, enqueued,
             requests, limiter, fatal>>

promVars == <<middleware, http, requestCounter, successCounter, failureCounter,
              concurrentRequests, entered, responses>>

vars == <<storeVars, timeVars, wrapVars, isVars, loggerVars, txVars, ginVars,
          promVars>>

\* what an action of the store clients leaves alone
auxVars == <<timeVars, wrapVars, isVars, loggerVars, txVars, ginVars, promVars>>

\* what an action of each other component leaves alone
timeFrame == <<storeVars, wrapVars, isVars, loggerVars, txVars, ginVars, promVars>>
wrapFrame == <<storeVars, timeVars, isVars, loggerVars, txVars, ginVars, promVars>>
isFrame == <<storeVars, timeVars, wrapVars, loggerVars, txVars, ginVars, promVars>>
loggerFrame == <<storeVars, timeVars, wrapVars, isVars, txVars, ginVars, promVars>>
txFrame == <<storeVars, timeVars, wrapVars, isVars, loggerVars, ginVars, promVars>>
ginFrame == <<storeVars, timeVars, wrapVars, isVars, loggerVars, txVars, promVars>>
promFrame == <<storeVars, timeVars, wrapVars, isVars, loggerVars, txVars, ginVars>>

sinkVars == <<registry, histograms, counters, histVal, ctrVal, sinkCalls>>

IdleCall ==
  [pc |-> "idle", client |-> NoClient, op |-> "", ctxState |-> "none",
   nEnd |-> 0, out |-> NoOut, gate |-> "none", h |-> NoHandle,
   nSink |-> 0, nObs |-> 0, nInc |-> 0, obsKey |-> NoKey, incKey |-> NoKey,
   ret |-> NoOut, why |-> ""]

StoreInit ==
  /\ DefaultConfig = [k \in Kinds |-> TRUE]
  /\ numSinks = 0
  /\ client = NoClient
  /\ registry = {}
  /\ histograms = [s \in 1..NumSinks |-> EmptyMap]
  /\ counters = [s \in 1..NumSinks |-> EmptyMap]
  /\ histVal = EmptyMap
  /\ ctrVal = EmptyMap
  /\ sinkCalls = [s \in 1..NumSinks |-> [lookups |-> 0, obs |-> 0, inc |-> 0]]
  /\ gated = [s \in 1..NumSinks |-> 0]
  /\ call = [g \in Callers |-> IdleCall]
  /\ callsBegun = 0
  /\ crashed = FALSE

\* a wrapper call that has not begun
IdleTimed ==
  [pc |-> "idle", kind |-> "", op |-> "", startTime |-> 0, err |-> NoErr,
   events |-> <<>>, at |-> <<>>]

TimeInit ==
  /\ now = 0
  /\ timed = IdleTimed
  /\ observed = <<>>
  /\ counted = <<>>

\* no wrapError call and no Is call is being followed
WrapOff == wrapArgs = <<>> /\ wrapped = <<>>
IsOff == isArgs = <<>> /\ isResult = <<>>

\* var log *logrus.Logger (nil); var mu sync.RWMutex (unlocked)
\* an InitLogger call that has not begun: its position, its config, its
\* place among the calls that locked mu, whether it made the logger, and the
\* settings it applied
IdleInit ==
  [pc |-> "idle", config |-> <<>>, ticket |-> 0, built |-> FALSE, steps |-> {}]

LoggerInit ==
  /\ log = <<>>
  /\ mu = 0
  /\ initCall = [g \in Callers |-> IdleInit]
  /\ exited = FALSE
  /\ loggers = 0
  /\ acquired = 0

\* a WithTransaction call that has not begun: its position, whether BeginTx
\* gave it a transaction, how often it called fn, tx.Commit and tx.Rollback,
\* what fn did, the panic in flight, and the error it returned
IdleTx ==
  [pc |-> "idle", began |-> FALSE, fnCalls |-> 0, commits |-> 0,
   rollbacks |-> 0, fnOut |-> "none", p |-> "none", ret |-> NoErr]

TxInit == txn = [g \in Callers |-> IdleTx]

\* the ids of the requests and of the fields maps the pool makes
Requests == 1..MaxRequests
Maps == 1..MaxRequests

\* a handler goroutine that serves no request: its position, the request,
\* what the downstream handlers did, the fields map it holds, the status it
\* answered with, the timeout context, and whether a panic left the middleware
IdleReq ==
  [pc |-> "idle", id |-> 0, path |-> "", outcome |-> "none", fields |-> 0,
   status |-> 0, ctx |-> "none", propagated |-> FALSE]

\* processLogs waiting on logChan
IdleProc == [pc |-> "recv", fields |-> 0]

\* requestFieldsPool is empty, logChan = make(chan logrus.Fields, 1000) is
\* empty, and RequestMiddleware has made the limiter, full, and has started
\* processLogs
GinInit ==
  /\ requestFieldsPool = [m \in Maps |-> 0]
  /\ fieldsOf = <<>>
  /\ logChan = <<>>
  /\ req = [g \in Callers |-> IdleReq]
  /\ proc = IdleProc
  /\ logged = <<>>
  /\ enqueued = [r \in Requests |-> <<>>]
  /\ requests = 0
  /\ limiter = RateBurst
  /\ fatal = FALSE

\* the label values of a series: the method and the path of a request
Methods == {"GET"}
UrlPaths == {"/a", "/b"}
Statuses == {200, 400, 500}
LabelValues == Methods \X UrlPaths

\* a MetricsConfig, as far as the counters and the gauge go
MetricsConfigs ==
  [Enabled : BOOLEAN, EnableSuccessRate : BOOLEAN, EnableFailureRate : BOOLEAN,
   EnableConcurrentRequests : BOOLEAN]
DefaultMetricsConfig ==
  [Enabled |-> TRUE, EnableSuccessRate |-> TRUE, EnableFailureRate |-> TRUE,
   EnableConcurrentRequests |-> TRUE]

\* no request in the Prometheus middleware
IdleHTTP ==
  [pc |-> "idle", labels |-> <<"", "">>, path |-> "", status |-> 0,
   deferred |-> FALSE, outcome |-> "none"]

\* PrometheusMiddleware has not been called, and no series has a value
PromInit ==
  /\ middleware = [built |-> FALSE, config |-> DefaultMetricsConfig]
  /\ http = [g \in Callers |-> IdleHTTP]
  /\ requestCounter = [k \in LabelValues \X Statuses |-> 0]
  /\ successCounter = [k \in LabelValues |-> 0]
  /\ failureCounter = [k \in LabelValues \X Statuses |-> 0]
  /\ concurrentRequests = [k \in LabelValues |-> 0]
  /\ entered = 0
  /\ responses = [s \in Statuses |-> 0]

Init ==
  /\ StoreInit
  /\ TimeInit
  /\ WrapOff
  /\ IsOff
  /\ LoggerInit
  /\ TxInit
  /\ GinInit
  /\ PromInit

\* ------------------------------------------------------------ construction
\* metrics.NewClient: a new client with empty maps
metrics_NewClient ==
  /\ ~crashed
  /\ UNCHANGED auxVars
  /\ numSinks < NumSinks
  /\ numSinks' = numSinks + 1
  /\ UNCHANGED <<DefaultConfig, client, registry, histograms, counters,
                 histVal, ctrVal, sinkCalls, gated, call, callsBegun, crashed>>

\* c.config.EnableMetrics
EnableMetrics(c) ==
  IF c.config = "DefaultConfig" THEN DefaultConfig[c.kind] ELSE c.EnableMetrics

\* c.config.ServiceName
ServiceName(c) == IF c.config = "DefaultConfig" THEN c.kind ELSE "svc"

\* redis NewClient turns EnableMetrics off in the config it was given when no
\* metrics client is passed; the mongodb and mysql constructors do not.
DisablesMetrics(kind, enable, metrics) ==
  kind = "redis" /\ enable /\ metrics = NoSink

\* the goroutines inside a wrapper call
InFlight == {g \in Callers : call[g].pc \notin {"idle", "returned", "panicked"}}

\* NewClient(config, metricsClient) of package `kind`, where config
\* "DefaultConfig" is the nil config and `enable` the EnableMetrics flag of
\* an own Config.  The goroutines use the new client from now on.
NewClient(kind, config, enable, metrics) ==
  /\ ~crashed
  /\ UNCHANGED auxVars
  /\ Cardinality(InFlight) <= MaxBusy
  /\ metrics \in 0..numSinks
  /\ LET flag == IF config = "DefaultConfig" THEN DefaultConfig[kind] ELSE enable
         off == DisablesMetrics(kind, flag, metrics)
     IN /\ client' = StoreClient(kind, config, IF off THEN FALSE ELSE enable, metrics)
        /\ DefaultConfig' =
             IF off /\ config = "DefaultConfig"
             THEN [DefaultConfig EXCEPT ![kind] = FALSE] ELSE DefaultConfig
  /\ UNCHANGED <<numSinks, registry, histograms, counters, histVal, ctrVal,
                 sinkCalls, gated, call, callsBegun, crashed>>

\* ------------------------------------------------------- a wrapper call
\* the receiver of goroutine g's call and its metrics client
Cl(g) == call[g].client
Sink(g) == Cl(g).metrics

SetCall(g, rec) == call' = [call EXCEPT ![g] = rec]

\* Goroutines are interchangeable: a new call is taken by the first goroutine
\* that is not inside one (0 when every goroutine is busy).
FirstFree ==
  IF InFlight = Callers THEN 0
  ELSE CHOOSE g \in Callers \ InFlight : \A g2 \in Callers \ InFlight : g <= g2

\* begin: redis newOperation (a fresh operation capturing time.Now()); in
\* mongodb and mysql the wrapper's `start := time.Now()`
newOperation(g) ==
  /\ ~crashed
  /\ UNCHANGED auxVars
  /\ g = FirstFree
  /\ callsBegun < MaxCalls
  /\ client # NoClient
  /\ \E op \in Ops(client.kind) :
       SetCall(g, [IdleCall EXCEPT !.pc = "begun", !.client = client,
                                   !.op = op, !.ctxState = "Open"])
  /\ callsBegun' = callsBegun + 1
  /\ UNCHANGED <<DefaultConfig, numSinks, client, registry, histograms,
                 counters, histVal, ctrVal, sinkCalls, gated, crashed>>

AfterDelegate_returnEarlyOnError(err) == IF err # NoErr THEN "ret" ELSE "end"

\* Where a wrapper goes once the driver call has returned: every wrapper
\* finishes the operation before it looks at the error.
AfterDelegate(err) == "end"

\* the delegated driver call returns
Delegate(g) ==
  /\ ~crashed
  /\ UNCHANGED auxVars
  /\ call[g].pc = "begun"
  /\ \E out \in DriverOutcomes(Cl(g).kind) :
       SetCall(g, [call[g] EXCEPT !.out = out, !.pc = AfterDelegate(out.err)])
  /\ UNCHANGED <<DefaultConfig, numSinks, client, registry, histograms,
                 counters, histVal, ctrVal, sinkCalls, gated, callsBegun, crashed>>

ShouldRecord_onlyNilAndDisabled(enable, metrics) ==
  ~(~enable /\ metrics = NoSink)

\* the guard of operation.end / recordMetrics:
\* `if !config.EnableMetrics || metrics == nil { return }`
ShouldRecord(enable, metrics) == ~(~enable \/ metrics = NoSink)

\* operation.end / Client.recordMetrics is entered.  gate remembers whether
\* the flag was on and a metrics client attached at that moment.
end(g) ==
  /\ ~crashed
  /\ UNCHANGED auxVars
  /\ call[g].pc = "end"
  /\ LET c == Cl(g)
         on == EnableMetrics(c) /\ c.metrics # NoSink
     IN /\ SetCall(g, [call[g] EXCEPT
               !.nEnd = @ + 1,
               !.gate = IF on THEN "on" ELSE "off",
               !.ctxState = IF ShouldRecord(EnableMetrics(c), c.metrics)
                            THEN @ ELSE "Closed",
               !.pc = IF ShouldRecord(EnableMetrics(c), c.metrics)
                      THEN "h_lookup" ELSE "ret"])
        /\ gated' = IF on THEN [gated EXCEPT ![c.metrics] = @ + 1] ELSE gated
  /\ UNCHANGED <<DefaultConfig, numSinks, client, registry, histograms,
                 counters, histVal, ctrVal, sinkCalls, callsBegun, crashed>>

\* ------------------------------------------------ the metrics client's maps
\* `v, ok := m[name]`
Lookup(map, name) ==
  IF name \in DOMAIN map THEN [ok |-> TRUE, h |-> map[name]]
  ELSE [ok |-> FALSE, h |-> NoHandle]

\* What a map read may yield.  A read that runs while other goroutines write
\* the same map is a data race: it may see the map before the write, miss
\* the key, or see a value being written.
Lookups(map, name, pending) ==
  IF pending = {} THEN {Lookup(map, name)}
  ELSE {Lookup(map, name), [ok |-> FALSE, h |-> NoHandle]} \cup
       {[ok |-> TRUE, h |-> w] : w \in {p \in pending : p.name = name}}

\* the handles other goroutines are about to write into the histograms /
\* counters map of metrics client s
PendingWrites(g, s, storePc) ==
  {call[g2].h : g2 \in {x \in Callers \ {g} :
                          /\ call[x].pc = storePc
                          /\ Sink(x) = s}}

\* the collectors of that name made so far
Created(name) == Cardinality({h \in registry : h.name = name})

MustRegisterOK_noCheck(reg, name) == TRUE

\* prometheus.MustRegister panics when a collector of that name is already
\* in the default registry
MustRegisterOK(reg, name) == \A h \in reg : h.name # name

Store_forgotten(map, name, h) == map

\* m[name] = h
Store(map, name, h) == (name :> h) @@ map

Bump(f, k) == IF k \in DOMAIN f THEN [f EXCEPT ![k] = @ + 1] ELSE (k :> 1) @@ f

Panic(g, why) == SetCall(g, [call[g] EXCEPT !.pc = "panicked", !.why = why])

CountCall(s, what) == sinkCalls' = [sinkCalls EXCEPT ![s][what] = @ + 1]

\* Client.Histogram, the map read
Histogram_lookup(g) ==
  /\ ~crashed
  /\ UNCHANGED auxVars
  /\ call[g].pc = "h_lookup"
  /\ LET s == Sink(g)
         name == HistogramName(Cl(g).kind)
     IN IF s = NoSink
        THEN /\ Panic(g, "nil pointer dereference")
             /\ UNCHANGED sinkCalls
        ELSE /\ \E r \in Lookups(histograms[s], name, PendingWrites(g, s, "h_store")) :
                  SetCall(g, [call[g] EXCEPT
                     !.nSink = @ + 1,
                     !.h = r.h,
                     !.pc = IF r.ok THEN "observe" ELSE "h_register"])
             /\ CountCall(s, "lookups")
  /\ UNCHANGED <<DefaultConfig, numSinks, client, registry, histograms,
                 counters, histVal, ctrVal, gated, callsBegun, crashed>>

\* Client.Histogram, NewHistogramVec and MustRegister
Histogram_register(g) ==
  /\ ~crashed
  /\ UNCHANGED auxVars
  /\ call[g].pc = "h_register"
  /\ LET name == HistogramName(Cl(g).kind)
         h == Handle(name, HistogramLabels(Cl(g).kind), Sink(g), Created(name) + 1)
     IN IF MustRegisterOK(registry, name)
        THEN /\ registry' = registry \cup {h}
             /\ SetCall(g, [call[g] EXCEPT !.h = h, !.pc = "h_store"])
        ELSE /\ Panic(g, "AlreadyRegistered")
             /\ UNCHANGED registry
  /\ UNCHANGED <<DefaultConfig, numSinks, client, histograms, counters,
                 histVal, ctrVal, sinkCalls, gated, callsBegun, crashed>>

\* Client.Histogram, the map write and return
Histogram_store(g) ==
  /\ ~crashed
  /\ UNCHANGED auxVars
  /\ call[g].pc = "h_store"
  /\ histograms' = [histograms EXCEPT
       ![Sink(g)] = Store(@, call[g].h.name, call[g].h)]
  /\ SetCall(g, [call[g] EXCEPT !.pc = "observe"])
  /\ UNCHANGED <<DefaultConfig, numSinks, client, registry, counters,
                 histVal, ctrVal, sinkCalls, gated, callsBegun, crashed>>

\* .WithLabelValues(...).Observe(duration): panics when the number of values
\* differs from the number of label names of the collector
Observe(g) ==
  /\ ~crashed
  /\ UNCHANGED auxVars
  /\ call[g].pc = "observe"
  /\ LET c == Cl(g)
         lv == HistogramValues(c.kind, call[g].op, ServiceName(c))
         k == [h |-> call[g].h, lv |-> lv]
     IN IF Len(lv) # Len(call[g].h.labels)
        THEN /\ Panic(g, "inconsistent label cardinality")
             /\ UNCHANGED <<histVal, sinkCalls>>
        ELSE /\ histVal' = Bump(histVal, k)
             /\ CountCall(c.metrics, "obs")
             /\ SetCall(g, [call[g] EXCEPT !.nObs = @ + 1, !.obsKey = k,
                                           !.pc = "c_lookup"])
  /\ UNCHANGED <<DefaultConfig, numSinks, client, registry, histograms,
                 counters, ctrVal, gated, callsBegun, crashed>>

\* Client.Counter, the map read
Counter_lookup(g) ==
  /\ ~crashed
  /\ UNCHANGED auxVars
  /\ call[g].pc = "c_lookup"
  /\ LET s == Sink(g)
         name == CounterName(Cl(g).kind)
     IN /\ \E r \in Lookups(counters[s], name, PendingWrites(g, s, "c_store")) :
             SetCall(g, [call[g] EXCEPT
                !.nSink = @ + 1,
                !.h = r.h,
                !.pc = IF r.ok THEN "inc" ELSE "c_register"])
        /\ CountCall(s, "lookups")
  /\ UNCHANGED <<DefaultConfig, numSinks, client, registry, histograms,
                 counters, histVal, ctrVal, gated, callsBegun, crashed>>

\* Client.Counter, NewCounterVec and MustRegister
Counter_register(g) ==
  /\ ~crashed
  /\ UNCHANGED auxVars
  /\ call[g].pc = "c_register"
  /\ LET name == CounterName(Cl(g).kind)
         h == Handle(name, CounterLabels(Cl(g).kind), Sink(g), Created(name) + 1)
     IN IF MustRegisterOK(registry, name)
        THEN /\ registry' = registry \cup {h}
             /\ SetCall(g, [call[g] EXCEPT !.h = h, !.pc = "c_store"])
        ELSE /\ Panic(g, "AlreadyRegistered")
             /\ UNCHANGED registry
  /\ UNCHANGED <<DefaultConfig, numSinks, client, histograms, counters,
                 histVal, ctrVal, sinkCalls, gated, callsBegun, crashed>>

\* Client.Counter, the map write and return
Counter_store(g) ==
  /\ ~crashed
  /\ UNCHANGED auxVars
  /\ call[g].pc = "c_store"
  /\ counters' = [counters EXCEPT
       ![Sink(g)] = Store(@, call[g].h.name, call[g].h)]
  /\ SetCall(g, [call[g] EXCEPT !.pc = "inc"])
  /\ UNCHANGED <<DefaultConfig, numSinks, client, registry, histograms,
                 histVal, ctrVal, sinkCalls, gated, callsBegun, crashed>>

\* .WithLabelValues(...).Inc(), after which end / recordMetrics returns
Inc(g) ==
  /\ ~crashed
  /\ UNCHANGED auxVars
  /\ call[g].pc = "inc"
  /\ LET c == Cl(g)
         lv == CounterValues(c.kind, call[g].op, getStatus(call[g].out.err),
                             ServiceName(c))
         k == [h |-> call[g].h, lv |-> lv]
     IN IF Len(lv) # Len(call[g].h.labels)
        THEN /\ Panic(g, "inconsistent label cardinality")
             /\ UNCHANGED <<ctrVal, sinkCalls>>
        ELSE /\ ctrVal' = Bump(ctrVal, k)
             /\ CountCall(c.metrics, "inc")
             /\ SetCall(g, [call[g] EXCEPT !.nInc = @ + 1, !.incKey = k,
                                           !.ctxState = "Closed", !.pc = "ret"])
  /\ UNCHANGED <<DefaultConfig, numSinks, client, registry, histograms,
                 counters, histVal, gated, callsBegun, crashed>>

\* Two goroutines are at conflicting accesses of one map of one metrics
\* client: one is about to write it, the other to read or write it.
Conflict(g1, g2) ==
  /\ g1 # g2
  /\ call[g1].pc \in {"h_store", "c_store"}
  /\ call[g2].pc \in {"h_lookup", "h_store", "c_lookup", "c_store"}
  /\ Sink(g1) = Sink(g2)
  /\ (call[g1].pc = "h_store") = (call[g2].pc \in {"h_lookup", "h_store"})

MapRace == \E g1, g2 \in Callers : Conflict(g1, g2)

\* The Go runtime detects a concurrent map access and stops the process
\* ("fatal error: concurrent map read and map write" / "concurrent map writes").
FatalMapAccess ==
  /\ ~crashed
  /\ UNCHANGED auxVars
  /\ MapRace
  /\ crashed' = TRUE
  /\ UNCHANGED <<DefaultConfig, numSinks, client, registry, histograms,
                 counters, histVal, ctrVal, sinkCalls, gated, call, callsBegun>>

\* What the wrapper hands back: the redis wrappers map the error and return
\* the zero value with it; the mongodb and mysql wrappers return what the
\* driver returned.
ReturnValue(kind, op, out) ==
  IF kind = "redis"
  THEN IF out.err # NoErr
       THEN [res |-> "zero", err |-> wrapError(out.err, op)]
       ELSE [res |-> out.res, err |-> NoErr]
  ELSE out

\* the wrapper returns to its caller
Return(g) ==
  /\ ~crashed
  /\ UNCHANGED auxVars
  /\ call[g].pc = "ret"
  /\ SetCall(g, [call[g] EXCEPT
       !.pc = "returned",
       !.ret = ReturnValue(Cl(g).kind, call[g].op, call[g].out)])
  /\ UNCHANGED <<DefaultConfig, numSinks, client, registry, histograms,
                 counters, histVal, ctrVal, sinkCalls, gated, callsBegun, crashed>>

Next ==
  \/ metrics_NewClient
  \/ \E kind \in Kinds, config \in {"DefaultConfig", "own"}, metrics \in 0..NumSinks :
       \E enable \in IF config = "own" THEN BOOLEAN ELSE {TRUE} :
         NewClient(kind, config, enable, metrics)
  \/ \E g \in Callers :
       \/ newOperation(g)
       \/ Delegate(g)
       \/ end(g)
       \/ Histogram_lookup(g)
       \/ Histogram_register(g)
       \/ Histogram_store(g)
       \/ Observe(g)
       \/ Counter_lookup(g)
       \/ Counter_register(g)
       \/ Counter_store(g)
       \/ Inc(g)
       \/ Return(g)
  \/ FatalMapAccess

Spec == Init /\ [][Next]_vars

\* ==================================================== a call against the clock
\* One wrapper call of a client with EnableMetrics on and a metrics client,
\* followed against the monotonic clock: redis Client.Get and mongodb
\* Client.InsertOne.  `events` lists what has happened and `at` the clock
\* reading of each event.
TimedOps(kind) ==
  CASE kind = "redis" -> "get"
    [] kind = "mongodb" -> "insert_one"

Happened(t, event) ==
  [t EXCEPT !.events = Append(@, event), !.at = Append(@, now)]

Since_reversed(start, t) == start - t

\* time.Since(start) at clock reading t.  time.Now() carries a monotonic
\* reading, so the difference is taken on the monotonic clock.
Since(start, t) == t - start

\* time passes
Tick ==
  /\ now < MaxTime
  /\ now' = now + 1
  /\ UNCHANGED <<timed, observed, counted>>
  /\ UNCHANGED timeFrame

\* redis newOperation (startTime: time.Now()); mongodb `start := time.Now()`
Timed_newOperation(kind) ==
  /\ timed.pc = "idle"
  /\ timed' = Happened([timed EXCEPT !.pc = "begun", !.kind = kind,
                                      !.op = TimedOps(kind), !.startTime = now],
                        "start")
  /\ UNCHANGED <<now, observed, counted>>
  /\ UNCHANGED timeFrame

\* the wrapper invokes the driver
Timed_Invoke ==
  /\ timed.pc = "begun"
  /\ timed' = Happened([timed EXCEPT !.pc = "in_driver"], "invoke")
  /\ UNCHANGED <<now, observed, counted>>
  /\ UNCHANGED timeFrame

\* the driver call returns
Timed_Result(err) ==
  /\ timed.pc = "in_driver"
  /\ timed' = Happened([timed EXCEPT !.pc = "end", !.err = err], "return")
  /\ UNCHANGED <<now, observed, counted>>
  /\ UNCHANGED timeFrame

\* operation.end / recordMetrics: duration := time.Since(start).Seconds(),
\* Observe(duration) on the histogram, Inc() on the counter
Timed_end ==
  /\ timed.pc = "end"
  /\ timed' = Happened([timed EXCEPT !.pc = "ret"], "finish")
  /\ observed' = Append(observed,
                        [op |-> timed.op, ms |-> Since(timed.startTime, now)])
  /\ counted' = Append(counted,
                       [op |-> timed.op, status |-> getStatus(timed.err)])
  /\ UNCHANGED now
  /\ UNCHANGED timeFrame

\* the wrapper returns
Timed_Return ==
  /\ timed.pc = "ret"
  /\ timed' = Happened([timed EXCEPT !.pc = "returned"], "wrapper_return")
  /\ UNCHANGED <<now, observed, counted>>
  /\ UNCHANGED timeFrame

TimeNext ==
  \/ Tick
  \/ \E kind \in {"redis", "mongodb"} : Timed_newOperation(kind)
  \/ Timed_Invoke
  \/ \E err \in {NoErr, ErrTimeout} : Timed_Result(err)
  \/ Timed_end
  \/ Timed_Return

TimeSpec == Init /\ [][TimeNext]_vars

\* ============================================================ redis wrapError
\* what the text of a driver error may be made of
Fragments == {"connection refused", "timeout", "redis: nil", "EOF"}

RECURSIVE Texts(_)
Texts(n) ==
  IF n = 0 THEN {<<>>}
  ELSE Texts(n - 1) \cup
       {Append(t, f) : t \in {x \in Texts(n - 1) : Len(x) = n - 1}, f \in Fragments}

\* the errors wrapError may be given: nil, the redis.Nil sentinel, and driver
\* errors of any text (one of them with the text of redis.Nil)
WrapErrors ==
  {NoErr, RedisNil} \cup {Err("driver", 0, t, <<>>) : t \in Texts(MaxText)}

WrapOperations == {"get", "set"}

WrapInit ==
  /\ wrapArgs \in [err : WrapErrors, operation : WrapOperations]
  /\ wrapped = <<>>

\* wrapError(err, operation) is called and returns
Wrap_Call ==
  /\ wrapArgs # <<>>
  /\ Len(wrapped) < MaxWraps
  /\ wrapped' = Append(wrapped, wrapError(wrapArgs.err, wrapArgs.operation))
  /\ UNCHANGED wrapArgs
  /\ UNCHANGED wrapFrame

WrapNext == Wrap_Call

\* the process at start, about to call wrapError on some arguments
WrapSpecInit ==
  /\ StoreInit
  /\ TimeInit
  /\ WrapInit
  /\ IsOff
  /\ LoggerInit
  /\ TxInit
  /\ GinInit
  /\ PromInit

WrapSpec == WrapSpecInit /\ [][WrapNext]_vars

\* ================================================================ pkg/logger
\* A *Config as InitLogger reads it (Level and ServiceName), or the nil
\* pointer.
NilConfig == [nil |-> TRUE]

LoggerConfigs ==
  [Level : {"debug", "verbose"}, ServiceName : {"", "svc"}] \cup {NilConfig}

\* logrus.ParseLevel followed by the fallback to InfoLevel
ParseLevel(level) ==
  IF level \in {"panic", "fatal", "error", "warn", "info", "debug", "trace"}
  THEN level ELSE "info"

\* logrus.New(): text formatter, info level, output to stderr
NewLogger(id) ==
  [id |-> id, formatter |-> "text", level |-> "info", output |-> "stderr"]

SetInit(g, rec) == initCall' = [initCall EXCEPT ![g] = rec]

AlreadyInitialised_never(l) == FALSE

\* `if log != nil { return }`
AlreadyInitialised(l) == l # <<>>

\* a goroutine calls InitLogger(config)
InitLogger(g, config) ==
  /\ ~exited
  /\ initCall[g].pc \in {"idle", "returned", "panicked"}
  /\ acquired + Cardinality({x \in Callers : initCall[x].pc = "lock"}) < MaxInits
  /\ SetInit(g, [IdleInit EXCEPT !.pc = "lock", !.config = config])
  /\ UNCHANGED <<log, mu, exited, loggers, acquired>>
  /\ UNCHANGED loggerFrame

\* mu.Lock()
Init_Lock(g) ==
  /\ ~exited
  /\ initCall[g].pc = "lock"
  /\ mu = 0
  /\ mu' = g
  /\ acquired' = acquired + 1
  /\ SetInit(g, [initCall[g] EXCEPT !.pc = "check", !.ticket = acquired + 1])
  /\ UNCHANGED <<log, exited, loggers>>
  /\ UNCHANGED loggerFrame

\* `if log != nil { return }`, else `log = logrus.New()`
Init_New(g) ==
  /\ ~exited
  /\ initCall[g].pc = "check"
  /\ IF AlreadyInitialised(log)
     THEN /\ SetInit(g, [initCall[g] EXCEPT !.pc = "unlock"])
          /\ UNCHANGED <<log, loggers>>
     ELSE /\ log' = NewLogger(loggers + 1)
          /\ loggers' = loggers + 1
          /\ SetInit(g, [initCall[g] EXCEPT !.pc = "formatter", !.built = TRUE])
  /\ UNCHANGED <<mu, exited, acquired>>
  /\ UNCHANGED loggerFrame

\* log.SetFormatter(&logrus.JSONFormatter{...})
Init_SetFormatter(g) ==
  /\ ~exited
  /\ initCall[g].pc = "formatter"
  /\ log' = [log EXCEPT !.formatter = "json"]
  /\ SetInit(g, [initCall[g] EXCEPT !.pc = "level",
                                     !.steps = @ \cup {"formatter"}])
  /\ UNCHANGED <<mu, exited, loggers, acquired>>
  /\ UNCHANGED loggerFrame

\* logrus.ParseLevel(config.Level) and log.SetLevel(level); reading
\* config.Level through a nil config panics
Init_SetLevel(g) ==
  /\ ~exited
  /\ initCall[g].pc = "level"
  /\ IF initCall[g].config = NilConfig
     THEN /\ SetInit(g, [initCall[g] EXCEPT !.pc = "unwind"])
          /\ UNCHANGED log
     ELSE /\ log' = [log EXCEPT !.level = ParseLevel(initCall[g].config.Level)]
          /\ SetInit(g, [initCall[g] EXCEPT !.pc = "mkdir",
                                             !.steps = @ \cup {"level"}])
  /\ UNCHANGED <<mu, exited, loggers, acquired>>
  /\ UNCHANGED loggerFrame

\* os.MkdirAll(config.LogPath, 0755); on failure logrus.Fatal ends the
\* process
Init_MkdirAll(g, ok) ==
  /\ ~exited
  /\ initCall[g].pc = "mkdir"
  /\ IF ok
     THEN /\ SetInit(g, [initCall[g] EXCEPT !.pc = "output"])
          /\ UNCHANGED exited
     ELSE /\ exited' = TRUE
          /\ UNCHANGED initCall
  /\ UNCHANGED <<log, mu, loggers, acquired>>
  /\ UNCHANGED loggerFrame

\* log.SetOutput(io.MultiWriter(os.Stdout, logFile))
Init_SetOutput(g) ==
  /\ ~exited
  /\ initCall[g].pc = "output"
  /\ log' = [log EXCEPT !.output = "stdout+file"]
  /\ SetInit(g, [initCall[g] EXCEPT !.pc = "service",
                                     !.steps = @ \cup {"output"}])
  /\ UNCHANGED <<mu, exited, loggers, acquired>>
  /\ UNCHANGED loggerFrame

\* `if config.ServiceName != "" { log = log.WithField(...).Logger }`: the
\* Logger of the entry WithField returns is the logger it was called on
Init_WithField(g) ==
  /\ ~exited
  /\ initCall[g].pc = "service"
  /\ log' = IF initCall[g].config.ServiceName # "" THEN log ELSE log
  /\ SetInit(g, [initCall[g] EXCEPT !.pc = "unlock"])
  /\ UNCHANGED <<mu, exited, loggers, acquired>>
  /\ UNCHANGED loggerFrame

\* the deferred mu.Unlock(), on return and while a panic unwinds
Init_Unlock(g) ==
  /\ ~exited
  /\ initCall[g].pc \in {"unlock", "unwind"}
  /\ mu' = 0
  /\ SetInit(g, [initCall[g] EXCEPT
       !.pc = IF @ = "unlock" THEN "returned" ELSE "panicked"])
  /\ UNCHANGED <<log, exited, loggers, acquired>>
  /\ UNCHANGED loggerFrame

LoggerNext ==
  \E g \in Callers :
    \/ \E config \in LoggerConfigs : InitLogger(g, config)
    \/ Init_Lock(g)
    \/ Init_New(g)
    \/ Init_SetFormatter(g)
    \/ Init_SetLevel(g)
    \/ \E ok \in BOOLEAN : Init_MkdirAll(g, ok)
    \/ Init_SetOutput(g)
    \/ Init_WithField(g)
    \/ Init_Unlock(g)

LoggerSpec == Init /\ [][LoggerNext]_vars

\* ============================================================ errors.Error.Is
\* the *Error values Is is called on and with
ErrorValues ==
  {Err("*errors.Error", code, message, details) :
     code \in {CodeNotFound, CodeServerError},
     message \in {<<"user not found">>, <<"key not found">>},
     details \in {<<>>, <<"user_id: 123">>}}

\* a nil *Error held in an error interface: the interface is not nil, its
\* type is *Error, its pointer is nil
NilErrorPtr == [kind |-> "*errors.Error", nil |-> TRUE]

\* what Is may be given as target: the nil interface, a nil *Error, an
\* *Error, an error of another type
IsTargets == {NoErr, NilErrorPtr, RedisNil, ErrTimeout} \cup ErrorValues

IsInit ==
  /\ isArgs \in [e : ErrorValues, target : IsTargets]
  /\ isResult = <<>>

\* (e *Error) Is(target error): "true", "false", or "panic" when it reads
\* err.Code through a nil pointer
Is(e, target) ==
  IF target = NoErr THEN "false"
  ELSE IF target.kind = "*errors.Error"
  THEN IF target = NilErrorPtr THEN "panic"
       ELSE IF e.Code = target.Code THEN "true" ELSE "false"
  ELSE "false"

\* e.Is(target) is called
Is_Call ==
  /\ isArgs # <<>>
  /\ isResult = <<>>
  /\ isResult' = <<Is(isArgs.e, isArgs.target)>>
  /\ UNCHANGED isArgs
  /\ UNCHANGED isFrame

IsNext == Is_Call

\* the process at start, about to call Is on some receiver and target
IsSpecInit ==
  /\ StoreInit
  /\ TimeInit
  /\ WrapOff
  /\ IsInit
  /\ LoggerInit
  /\ TxInit
  /\ GinInit
  /\ PromInit

IsSpec == IsSpecInit /\ [][IsNext]_vars

\* ================================================== mysql WithTransaction
ErrBegin == Err("driver", 0, <<"begin failed">>, <<>>)
ErrFn == Err("callback", 0, <<"fn failed">>, <<>>)
ErrCommit == Err("driver", 0, <<"commit failed">>, <<>>)
ErrRollback == Err("driver", 0, <<"rollback failed">>, <<>>)

\* errors.New(err.Error() + ": " + rbErr.Error()) of the standard library
Joined(err, rbErr) ==
  Err("*errors.errorString", 0, err.Message \o <<": ">> \o rbErr.Message, <<>>)

SetTx(g, rec) == txn' = [txn EXCEPT ![g] = rec]

\* a goroutine calls c.WithTransaction(ctx, fn)
WithTransaction(g) ==
  /\ txn[g].pc = "idle"
  /\ SetTx(g, [txn[g] EXCEPT !.pc = "begin"])
  /\ UNCHANGED txFrame

\* tx, err := c.db.BeginTx(ctx, nil); if err != nil { return err }
Tx_BeginTx(g, ok) ==
  /\ txn[g].pc = "begin"
  /\ SetTx(g, IF ok THEN [txn[g] EXCEPT !.pc = "fn", !.began = TRUE]
               ELSE [txn[g] EXCEPT !.pc = "returned", !.ret = ErrBegin])
  /\ UNCHANGED txFrame

\* fn(tx) returns nil, returns an error, or panics
Tx_fn(g, outcome) ==
  /\ txn[g].pc = "fn"
  /\ SetTx(g, [txn[g] EXCEPT
       !.fnCalls = @ + 1,
       !.fnOut = outcome,
       !.p = IF outcome = "panic" THEN "fn panic" ELSE "none",
       !.pc = CASE outcome = "nil" -> "commit"
                [] outcome = "error" -> "rollback"
                [] outcome = "panic" -> "deferred"])
  /\ UNCHANGED txFrame

\* return tx.Commit()
Tx_Commit(g, ok) ==
  /\ txn[g].pc = "commit"
  /\ SetTx(g, [txn[g] EXCEPT !.commits = @ + 1, !.pc = "deferred",
                              !.ret = IF ok THEN NoErr ELSE ErrCommit])
  /\ UNCHANGED txFrame

\* if rbErr := tx.Rollback(); rbErr != nil { return errors.New(...) }; return err
Tx_Rollback(g, ok) ==
  /\ txn[g].pc = "rollback"
  /\ SetTx(g, [txn[g] EXCEPT !.rollbacks = @ + 1, !.pc = "deferred",
                              !.ret = IF ok THEN ErrFn
                                      ELSE Joined(ErrFn, ErrRollback)])
  /\ UNCHANGED txFrame

Recovered_never(p) == FALSE

\* `if p := recover(); p != nil`
Recovered(p) == p # "none"

\* the deferred function: on a panic tx.Rollback() and panic(p) again
Tx_Deferred(g) ==
  /\ txn[g].pc = "deferred"
  /\ SetTx(g, IF Recovered(txn[g].p)
               THEN [txn[g] EXCEPT !.rollbacks = @ + 1, !.pc = "panicked"]
               ELSE [txn[g] EXCEPT
                       !.pc = IF txn[g].p = "none" THEN "returned" ELSE "panicked"])
  /\ UNCHANGED txFrame

TxNext ==
  \E g \in Callers :
    \/ WithTransaction(g)
    \/ \E ok \in BOOLEAN : Tx_BeginTx(g, ok)
    \/ \E outcome \in {"nil", "error", "panic"} : Tx_fn(g, outcome)
    \/ \E ok \in BOOLEAN : Tx_Commit(g, ok)
    \/ \E ok \in BOOLEAN : Tx_Rollback(g, ok)
    \/ Tx_Deferred(g)

TxSpec == Init /\ [][TxNext]_vars

\* ==================================================== gin RequestMiddleware
\* the keys the panic recovery writes, the keys the request log writes, and
\* the keys of config.LogFields
PanicKeys == {"service", "request_id", "error", "stack"}
LogKeys == {"service", "request_id", "client_ip", "method", "path", "status",
            "latency_ms", "user_agent", "error_count", "request_count"}
CustomKeys == {"env"}
FieldKeys == PanicKeys \cup LogKeys \cup CustomKeys

\* the value of a key: the request it was written for and, for "status", the
\* status code; a key that is not in the map reads as Absent
Absent == [by |-> 0, val |-> 0]
Value(r, k, status) == [by |-> r, val |-> IF k = "status" THEN status ELSE 0]

\* make(logrus.Fields, 10)
NewFields == [k \in FieldKeys |-> Absent]

\* fields[k] = v for every k of keys; the other keys of the map stay
Write(f, keys, r, status) ==
  [k \in FieldKeys |-> IF k \in keys THEN Value(r, k, status) ELSE f[k]]

SetReq(g, rec) == req' = [req EXCEPT ![g] = rec]

\* the paths a request may name, and the path lists of the configuration
Paths == {"/api", "/admin", "/other"}
PathBlacklist == {"/admin"}
PathWhitelist == {"/api", "/admin"}

\* isPathAllowed: a blacklisted path is refused; with a whitelist only its
\* paths are allowed
isPathAllowed(path) ==
  IF path \in PathBlacklist THEN FALSE
  ELSE IF PathWhitelist # {} THEN path \in PathWhitelist
  ELSE TRUE

\* limiter.Allow(): takes a token if the limiter holds one
Allow(tokens) ==
  [ok |-> tokens > 0, tokens |-> IF tokens > 0 THEN tokens - 1 ELSE tokens]

\* the limiter is asked before the path is looked at
Gates_limiterFirst(path, tokens) ==
  IF ~Allow(tokens).ok THEN [answer |-> 429, tokens |-> Allow(tokens).tokens]
  ELSE IF ~isPathAllowed(path) THEN [answer |-> 403, tokens |-> Allow(tokens).tokens]
  ELSE [answer |-> 0, tokens |-> Allow(tokens).tokens]

\* the gates of the middleware, in the order of the code: the path filter
\* answers 403 and returns; else limiter.Allow() is called and a refusal is
\* answered 429; answer 0 stands for a request that goes on
Gates(path, tokens) ==
  IF ~isPathAllowed(path) THEN [answer |-> 403, tokens |-> tokens]
  ELSE IF ~Allow(tokens).ok THEN [answer |-> 429, tokens |-> Allow(tokens).tokens]
  ELSE [answer |-> 0, tokens |-> Allow(tokens).tokens]

\* A request reaches the middleware: the path filter or the limiter may
\* answer it at once; else the timeout context is made, cancel and the panic
\* recovery are deferred, and the request goes on to c.Next().
Gin_Request(g, path) ==
  /\ ~fatal
  /\ req[g].pc \in {"idle", "done"}
  /\ requests < MaxRequests
  /\ requests' = requests + 1
  /\ limiter' = Gates(path, limiter).tokens
  /\ SetReq(g, IF Gates(path, limiter).answer # 0
                THEN [IdleReq EXCEPT !.pc = "done", !.id = requests + 1,
                                     !.path = path,
                                     !.status = Gates(path, limiter).answer]
                ELSE [IdleReq EXCEPT !.pc = "next", !.id = requests + 1,
                                     !.path = path, !.ctx = "active"])
  /\ UNCHANGED <<requestFieldsPool, fieldsOf, logChan, proc, logged, enqueued, fatal>>
  /\ UNCHANGED ginFrame

\* time passes and the limiter gains a token, up to its burst
Limiter_Refill ==
  /\ ~fatal
  /\ limiter < RateBurst
  /\ limiter' = limiter + 1
  /\ UNCHANGED <<requestFieldsPool, fieldsOf, logChan, req, proc, logged,
                 enqueued, requests, fatal>>
  /\ UNCHANGED ginFrame

\* what the downstream handlers may do: answer with a status, or panic
\* before answering
NextOutcomes ==
  {[panic |-> FALSE, status |-> 200], [panic |-> FALSE, status |-> 404],
   [panic |-> TRUE, status |-> 0]}

\* c.Next(): the downstream handlers answer with a status, or panic
Gin_Next(g, outcome) ==
  /\ ~fatal
  /\ req[g].pc = "next"
  /\ SetReq(g, IF outcome.panic
                THEN [req[g] EXCEPT !.outcome = "panic", !.pc = "rec_get"]
                ELSE [req[g] EXCEPT !.outcome = "returned",
                                    !.status = outcome.status,
                                    !.pc = "log_get"])
  /\ UNCHANGED <<requestFieldsPool, fieldsOf, logChan, proc, logged, enqueued,
                 requests, fatal>>
  /\ UNCHANGED <<limiter, ginFrame>>

\* requestFieldsPool.Get(): any map in the pool, or a new one from New
Gin_Get(g) ==
  /\ ~fatal
  /\ req[g].pc \in {"log_get", "rec_get"}
  /\ LET to == IF req[g].pc = "log_get" THEN "log_fill" ELSE "rec_fill"
     IN \/ \E m \in Maps :
             /\ requestFieldsPool[m] > 0
             /\ requestFieldsPool' = [requestFieldsPool EXCEPT ![m] = @ - 1]
             /\ SetReq(g, [req[g] EXCEPT !.fields = m, !.pc = to])
             /\ UNCHANGED fieldsOf
        \/ /\ Len(fieldsOf) < MaxRequests
           /\ fieldsOf' = Append(fieldsOf, NewFields)
           /\ SetReq(g, [req[g] EXCEPT !.fields = Len(fieldsOf) + 1, !.pc = to])
           /\ UNCHANGED requestFieldsPool
  /\ UNCHANGED <<logChan, proc, logged, enqueued, requests, fatal>>
  /\ UNCHANGED <<limiter, ginFrame>>

\* the assignments into the map: the recovery writes PanicKeys, the request
\* log writes LogKeys and the keys of config.LogFields
Gin_Fill(g) ==
  /\ ~fatal
  /\ req[g].pc \in {"log_fill", "rec_fill"}
  /\ LET keys == IF req[g].pc = "rec_fill" THEN PanicKeys
                 ELSE LogKeys \cup CustomKeys
     IN fieldsOf' = [fieldsOf EXCEPT ![req[g].fields] =
                       Write(@, keys, req[g].id, req[g].status)]
  /\ SetReq(g, [req[g] EXCEPT !.pc = IF @ = "rec_fill" THEN "rec_send"
                                      ELSE "log_send"])
  /\ UNCHANGED <<requestFieldsPool, logChan, proc, logged, enqueued, requests, fatal>>
  /\ UNCHANGED <<limiter, ginFrame>>

\* logChan <- fields: blocks while the channel is full
Gin_Send(g) ==
  /\ ~fatal
  /\ req[g].pc \in {"log_send", "rec_send"}
  /\ Len(logChan) < LogChanCap
  /\ logChan' = Append(logChan, req[g].fields)
  /\ enqueued' = [enqueued EXCEPT ![req[g].id] = fieldsOf[req[g].fields]]
  /\ SetReq(g, [req[g] EXCEPT !.pc = IF @ = "rec_send" THEN "rec_put"
                                      ELSE "timeout"])
  /\ UNCHANGED <<requestFieldsPool, fieldsOf, proc, logged, requests, fatal>>
  /\ UNCHANGED <<limiter, ginFrame>>

\* panic recovery: requestFieldsPool.Put(logFields), then
\* c.AbortWithStatusJSON(http.StatusInternalServerError, ...)
Gin_RecoverPutAbort(g) ==
  /\ ~fatal
  /\ req[g].pc = "rec_put"
  /\ requestFieldsPool' = [requestFieldsPool EXCEPT ![req[g].fields] = @ + 1]
  /\ SetReq(g, [req[g] EXCEPT !.status = 500, !.pc = "cancel"])
  /\ UNCHANGED <<fieldsOf, logChan, proc, logged, enqueued, requests, fatal>>
  /\ UNCHANGED <<limiter, ginFrame>>

\* `if ctx.Err() == context.DeadlineExceeded` after the request log
Gin_TimeoutCheck(g, exceeded) ==
  /\ ~fatal
  /\ req[g].pc = "timeout"
  /\ SetReq(g, [req[g] EXCEPT !.status = IF exceeded THEN 504 ELSE @,
                              !.pc = "cancel"])
  /\ UNCHANGED <<requestFieldsPool, fieldsOf, logChan, proc, logged, enqueued,
                 requests, fatal>>
  /\ UNCHANGED <<limiter, ginFrame>>

\* the deferred cancel(), and the middleware returns
Gin_Cancel(g) ==
  /\ ~fatal
  /\ req[g].pc = "cancel"
  /\ SetReq(g, [req[g] EXCEPT !.ctx = "cancelled", !.pc = "done"])
  /\ UNCHANGED <<requestFieldsPool, fieldsOf, logChan, proc, logged, enqueued,
                 requests, fatal>>
  /\ UNCHANGED <<limiter, ginFrame>>

\* processLogs: `for fields := range logChan`
Proc_Receive ==
  /\ ~fatal
  /\ proc.pc = "recv"
  /\ logChan # <<>>
  /\ proc' = [pc |-> "log", fields |-> Head(logChan)]
  /\ logChan' = Tail(logChan)
  /\ UNCHANGED <<requestFieldsPool, fieldsOf, req, logged, enqueued, requests, fatal>>
  /\ UNCHANGED <<limiter, ginFrame>>

\* the level processLogs logs at, from fields["status"].(int)
Level(status) ==
  IF status >= 500 THEN "error" ELSE IF status >= 400 THEN "warn" ELSE "info"

\* processLogs: logrus.WithFields(fields) and the log call
Proc_Log ==
  /\ ~fatal
  /\ proc.pc = "log"
  /\ logged' = Append(logged,
                      [fields |-> fieldsOf[proc.fields],
                       level |-> Level(fieldsOf[proc.fields]["status"].val)])
  /\ proc' = [proc EXCEPT !.pc = "put"]
  /\ UNCHANGED <<requestFieldsPool, fieldsOf, logChan, req, enqueued, requests, fatal>>
  /\ UNCHANGED <<limiter, ginFrame>>

\* processLogs: requestFieldsPool.Put(fields)
Proc_Put ==
  /\ ~fatal
  /\ proc.pc = "put"
  /\ requestFieldsPool' = [requestFieldsPool EXCEPT ![proc.fields] = @ + 1]
  /\ proc' = IdleProc
  /\ UNCHANGED <<fieldsOf, logChan, req, logged, enqueued, requests, fatal>>
  /\ UNCHANGED <<limiter, ginFrame>>

\* the goroutines about to write a fields map, and about to read it
Writers(m) == {g \in Callers : req[g].pc \in {"log_fill", "rec_fill"} /\ req[g].fields = m}
Reading(m) == proc.pc = "log" /\ proc.fields = m

\* a fields map is about to be written by one goroutine and read or written
\* by another
FieldsRace ==
  \E m \in Maps : \/ Cardinality(Writers(m)) > 1
                   \/ (Writers(m) # {} /\ Reading(m))

\* The Go runtime detects the concurrent map access and stops the process
\* ("fatal error: concurrent map iteration and map write" / "concurrent map
\* writes").
Gin_FatalMapAccess ==
  /\ ~fatal
  /\ FieldsRace
  /\ fatal' = TRUE
  /\ UNCHANGED <<requestFieldsPool, fieldsOf, logChan, req, proc, logged,
                 enqueued, requests>>
  /\ UNCHANGED <<limiter, ginFrame>>

GinNext ==
  \/ \E g \in Callers :
       \/ \E path \in Paths : Gin_Request(g, path)
       \/ \E outcome \in NextOutcomes : Gin_Next(g, outcome)
       \/ Gin_Get(g)
       \/ Gin_Fill(g)
       \/ Gin_Send(g)
       \/ Gin_RecoverPutAbort(g)
       \/ \E exceeded \in BOOLEAN : Gin_TimeoutCheck(g, exceeded)
       \/ Gin_Cancel(g)
  \/ Proc_Receive
  \/ Proc_Log
  \/ Proc_Put
  \/ Limiter_Refill
  \/ Gin_FatalMapAccess

GinSpec == Init /\ [][GinNext]_vars

\* ================================================= gin PrometheusMiddleware
SetHTTP(g, rec) == http' = [http EXCEPT ![g] = rec]

\* vec.WithLabelValues(lv...).IncAt() and .DecAt()
IncAt(vec, lv) == [vec EXCEPT ![lv] = @ + 1]
DecAt(vec, lv) == [vec EXCEPT ![lv] = @ - 1]

\* PrometheusMiddleware(client, config): the counters and the gauge are made
\* and the handler closure keeps config
PrometheusMiddleware(config) ==
  /\ ~middleware.built
  /\ middleware' = [built |-> TRUE, config |-> config]
  /\ UNCHANGED <<http, requestCounter, successCounter, failureCounter,
                 concurrentRequests, entered, responses>>
  /\ UNCHANGED promFrame

\* A request enters the handler closure: with the gauge enabled it is
\* incremented for the request's method and path, and the Dec of the same
\* series is deferred.
Prom_Enter(g, method, path) ==
  /\ middleware.built
  /\ http[g].pc \in {"idle", "done"}
  /\ entered < MaxHTTP
  /\ entered' = entered + 1
  /\ LET gauge == middleware.config.Enabled
                    /\ middleware.config.EnableConcurrentRequests
     IN /\ concurrentRequests' =
             IF gauge THEN IncAt(concurrentRequests, <<method, path>>)
             ELSE concurrentRequests
        /\ SetHTTP(g, [IdleHTTP EXCEPT !.pc = "next",
                                       !.labels = <<method, path>>,
                                       !.path = path, !.deferred = gauge])
  /\ UNCHANGED <<middleware, requestCounter, successCounter, failureCounter,
                 responses>>
  /\ UNCHANGED promFrame

\* what the downstream handlers may do: answer with a status, having left
\* c.Request.URL.Path alone or rewritten it, or panic
HTTPOutcomes ==
  [panic : {FALSE}, status : Statuses, path : UrlPaths]
    \cup {[panic |-> TRUE, status |-> 0, path |-> ""]}

\* c.Next(); a panic unwinds the closure, and the disabled middleware does
\* nothing after c.Next()
Prom_Next(g, outcome) ==
  /\ http[g].pc = "next"
  /\ SetHTTP(g, IF outcome.panic
                 THEN [http[g] EXCEPT !.outcome = "panic", !.pc = "exit"]
                 ELSE [http[g] EXCEPT !.outcome = "returned",
                                      !.status = outcome.status,
                                      !.path = outcome.path,
                                      !.pc = IF middleware.config.Enabled
                                             THEN "total" ELSE "exit"])
  /\ UNCHANGED <<middleware, requestCounter, successCounter, failureCounter,
                 concurrentRequests, entered, responses>>
  /\ UNCHANGED promFrame

\* the labels of the series written after c.Next(): c.Request.Method and
\* c.Request.URL.Path as they are then
LabelsNow(r) == <<r.labels[1], r.path>>

\* requestCounter.WithLabelValues(method, path, status, service).IncAt()
Prom_Total(g) ==
  /\ http[g].pc = "total"
  /\ requestCounter' = IncAt(requestCounter, <<LabelsNow(http[g]), http[g].status>>)
  /\ SetHTTP(g, [http[g] EXCEPT !.pc = "success"])
  /\ UNCHANGED <<middleware, successCounter, failureCounter, concurrentRequests,
                 entered, responses>>
  /\ UNCHANGED promFrame

\* a status of 400 counts as a success too
IsSuccess_upTo400(statusCode) == statusCode <= 400

\* statusCode < http.StatusBadRequest
IsSuccess(statusCode) == statusCode < 400

\* statusCode >= http.StatusBadRequest
IsFailure(statusCode) == statusCode >= 400

\* `if config.EnableSuccessRate && successCounter != nil && statusCode < 400`
Prom_Success(g) ==
  /\ http[g].pc = "success"
  /\ successCounter' =
       IF middleware.config.EnableSuccessRate /\ IsSuccess(http[g].status)
       THEN IncAt(successCounter, LabelsNow(http[g]))
       ELSE successCounter
  /\ SetHTTP(g, [http[g] EXCEPT !.pc = "failure"])
  /\ UNCHANGED <<middleware, requestCounter, failureCounter, concurrentRequests,
                 entered, responses>>
  /\ UNCHANGED promFrame

\* `if config.EnableFailureRate && failureCounter != nil && statusCode >= 400`;
\* what follows in the closure touches none of these series
Prom_Failure(g) ==
  /\ http[g].pc = "failure"
  /\ failureCounter' =
       IF middleware.config.EnableFailureRate /\ IsFailure(http[g].status)
       THEN IncAt(failureCounter, <<LabelsNow(http[g]), http[g].status>>)
       ELSE failureCounter
  /\ SetHTTP(g, [http[g] EXCEPT !.pc = "exit"])
  /\ UNCHANGED <<middleware, requestCounter, successCounter, concurrentRequests,
                 entered, responses>>
  /\ UNCHANGED promFrame

\* the Dec is done on the series of the labels as they are at exit
DeferredDec_labelsAtExit(gauge, r) ==
  IF r.deferred THEN DecAt(gauge, LabelsNow(r)) ELSE gauge

\* the deferred call: the series was chosen when the defer statement ran,
\* with the labels the request entered with
DeferredDec(gauge, r) ==
  IF r.deferred THEN DecAt(gauge, r.labels) ELSE gauge

\* the closure is left, by return or by the panic of a handler, and the
\* deferred Dec runs
Prom_Exit(g) ==
  /\ http[g].pc = "exit"
  /\ concurrentRequests' = DeferredDec(concurrentRequests, http[g])
  /\ responses' = IF http[g].outcome = "returned"
                  THEN [responses EXCEPT ![http[g].status] = @ + 1]
                  ELSE responses
  /\ SetHTTP(g, [http[g] EXCEPT !.pc = "done"])
  /\ UNCHANGED <<middleware, requestCounter, successCounter, failureCounter,
                 entered>>
  /\ UNCHANGED promFrame

PromNext ==
  \/ \E config \in MetricsConfigs : PrometheusMiddleware(config)
  \/ \E g \in Callers :
       \/ \E method \in Methods, path \in UrlPaths : Prom_Enter(g, method, path)
       \/ \E outcome \in HTTPOutcomes : Prom_Next(g, outcome)
       \/ Prom_Total(g)
       \/ Prom_Success(g)
       \/ Prom_Failure(g)
       \/ Prom_Exit(g)

PromSpec == Init /\ [][PromNext]_vars

\* =================================================================== claims
Over(g) == call[g].pc \in {"returned", "panicked"}
Quiescent == InFlight = {}

\* Goroutine 1 alone has made calls: the calls so far came one after another.
Sequential == \A g \in Callers \ {1} : call[g] = IdleCall

\* the outcome string of an error, as the specification defines it
Outcome(err) == IF err = NoErr THEN "success" ELSE "error"

\* the value a series key carries for a label name
LabelValue(k, label) ==
  k.lv[CHOOSE i \in 1..Len(k.h.labels) : k.h.labels[i] = label]

RECURSIVE Sum(_, _)
Sum(f, keys) ==
  IF keys = {} THEN 0
  ELSE LET k == CHOOSE x \in keys : TRUE IN f[k] + Sum(f, keys \ {k})

\* the value the registry exposes for a counter series
ExposedCounter(name, lv) ==
  Sum(ctrVal, {k \in DOMAIN ctrVal : k.h \in registry /\ k.h.name = name /\ k.lv = lv})

\* C1: in a program that issues its calls one after another, every call that
\* reached finish with EnableMetrics on and a metrics client attached, and is
\* over, made exactly one observation and one increment; between calls each
\* metrics client has received as many observations and increments as such
\* calls were made on it.
C1_ExactlyOneRecordingPerCall ==
  Sequential =>
    /\ \A g \in Callers :
         Over(g) /\ call[g].gate = "on" => call[g].nObs = 1 /\ call[g].nInc = 1
    /\ Quiescent =>
         \A s \in 1..NumSinks :
           sinkCalls[s].obs = gated[s] /\ sinkCalls[s].inc = gated[s]

\* C2: the step in which a call finishes with EnableMetrics off or without a
\* metrics client ends the finish at once, and changes nothing of the
\* registry, the metrics clients' maps, the series or the calls they received.
C2_DisabledFinishTouchesNothing ==
  [][\A g \in Callers :
       (/\ call[g].pc = "end"
        /\ call'[g] # call[g]
        /\ (~EnableMetrics(Cl(g)) \/ Cl(g).metrics = NoSink))
       => /\ UNCHANGED sinkVars
          /\ call'[g].pc = "ret"
          /\ call'[g].nSink = 0 /\ call'[g].nObs = 0 /\ call'[g].nInc = 0]_vars

\* C2 witness: a call on a disabled client that has a metrics client returned
\* after a failed driver call, while the metrics client holds series
C2_Witness ==
  \E g \in Callers :
    /\ call[g].pc = "returned"
    /\ call[g].gate = "off"
    /\ Cl(g).metrics # NoSink
    /\ call[g].out.err # NoErr
    /\ DOMAIN ctrVal # {}

\* C3: the status label of every increment is "success" when the driver
\* returned a nil error and "error" otherwise, and no counter series carries
\* another status.
C3_StatusLabel ==
  /\ \A g \in Callers :
       call[g].nInc > 0 =>
         LabelValue(call[g].incKey, "status") = Outcome(call[g].out.err)
  /\ \A k \in DOMAIN ctrVal : LabelValue(k, "status") \in {"success", "error"}

\* C3 witness: a not-found error (redis.Nil) was counted
C3_Witness ==
  \E g \in Callers :
    /\ call[g].nInc = 1
    /\ call[g].out.err = RedisNil
    /\ LabelValue(call[g].incKey, "status") = "error"

\* C4: when every goroutine has made exactly one call, all on the same client
\* with the same outcome and with metrics on, and all calls are over, the
\* counter of that operation and outcome stands at the number of goroutines.
C4_NoLostIncrement ==
  (/\ callsBegun = NumCallers
   /\ \A g \in Callers :
        /\ Over(g)
        /\ call[g].gate = "on"
        /\ call[g].client = call[1].client
        /\ call[g].out = call[1].out)
  => ExposedCounter(CounterName(Cl(1).kind),
                    CounterValues(Cl(1).kind, call[1].op,
                                  Outcome(call[1].out.err), ServiceName(Cl(1))))
       = NumCallers

\* C5: no two goroutines are ever at conflicting accesses of a map of a
\* metrics client, and no goroutine fails to obtain a series because the
\* same metrics client had created it meanwhile.
C5_SafeLazyCreation ==
  /\ ~MapRace
  /\ ~crashed
  /\ \A g \in Callers :
       call[g].pc = "panicked" /\ call[g].why = "AlreadyRegistered" =>
         \A h \in registry :
           h.name \in {HistogramName(Cl(g).kind), CounterName(Cl(g).kind)}
             => h.sink # Sink(g)

\* C6: what a returned wrapper handed back: the mongodb and mysql wrappers
\* exactly what the driver returned; the redis wrapper a nil error exactly
\* when the driver's was nil, and then the driver's result.
C6_Transparent ==
  \A g \in Callers :
    call[g].pc = "returned" =>
      IF Cl(g).kind = "redis"
      THEN /\ (call[g].ret.err = NoErr) <=> (call[g].out.err = NoErr)
           /\ call[g].out.err = NoErr => call[g].ret.res = call[g].out.res
      ELSE call[g].ret = call[g].out

\* C6 witness: a redis call whose driver call failed with redis.Nil returned,
\* with metrics off
C6_Witness ==
  \E g \in Callers :
    /\ call[g].pc = "returned"
    /\ Cl(g).kind = "redis"
    /\ call[g].gate = "off"
    /\ call[g].out.err = RedisNil
    /\ call[g].ret.err.Code = CodeNotFound

\* C7: an operation context is finished at most once; it is Open and not yet
\* finished until the driver call has returned, and a wrapper that has
\* returned has finished it exactly once and left it Closed.
C7_FinishedExactlyOnce ==
  \A g \in Callers :
    /\ call[g].nEnd <= 1
    /\ call[g].pc = "begun" => call[g].ctxState = "Open" /\ call[g].nEnd = 0
    /\ call[g].ctxState = "Closed" => call[g].nEnd = 1
    /\ call[g].pc \in {"ret", "returned"} =>
         call[g].ctxState = "Closed" /\ call[g].nEnd = 1

\* C7 witness: a wrapper returned on the error path with metrics on
C7_Witness ==
  \E g \in Callers :
    /\ call[g].pc = "returned"
    /\ call[g].out.err # NoErr
    /\ call[g].gate = "on"
    /\ call[g].nEnd = 1

\* C8: in a program that issues its calls one after another, no call panics
\* and the process is not stopped.
C8_EnvelopeNeverFails ==
  Sequential => /\ \A g \in Callers : call[g].pc # "panicked"
                /\ ~crashed

\* the handle a goroutine got back from Histogram / Counter, if it holds one
Holds(g) == call[g].pc \in {"observe", "inc"}

\* C9: a series name is registered once, every handle handed out for it is
\* that one registered collector, a metrics client used by one goroutine
\* never fails to hand out a series it has created, and each counter series
\* stands at the number of increments made through its metrics client for
\* that name and those label values.
C9_RegistrationIdempotent ==
  /\ \A h1, h2 \in registry : h1.name = h2.name => h1 = h2
  /\ \A g \in Callers : Holds(g) => call[g].h \in registry
  /\ \A k \in DOMAIN ctrVal \cup DOMAIN histVal : k.h \in registry
  /\ Sequential =>
       \A g \in Callers :
         call[g].pc = "panicked" /\ call[g].why = "AlreadyRegistered" =>
           \A h \in registry :
             h.name \in {HistogramName(Cl(g).kind), CounterName(Cl(g).kind)}
               => h.sink # Sink(g)
  /\ \A s \in 1..NumSinks :
       /\ sinkCalls[s].inc = Sum(ctrVal, {k \in DOMAIN ctrVal : k.h.sink = s})
       /\ sinkCalls[s].obs = Sum(histVal, {k \in DOMAIN histVal : k.h.sink = s})

\* C9 witness: two calls obtained the counter one after the other and the
\* series stands at 2
C9_Witness ==
  /\ Sequential
  /\ callsBegun = 2
  /\ \E k \in DOMAIN ctrVal : ctrVal[k] = 2

\* the value an instrumented call supplies for a label name
RoleValue(g, label) ==
  CASE label = "operation" -> call[g].op
    [] label = "collection" -> Collection
    [] label = "status" -> Outcome(call[g].out.err)
    [] label = "service" -> ServiceName(Cl(g))

Matches(g, k) ==
  /\ Len(k.lv) = Len(k.h.labels)
  /\ \A i \in 1..Len(k.lv) : k.lv[i] = RoleValue(g, k.h.labels[i])

\* C10 as stated: in every package the duration is keyed by (operation,
\* service) and the count by (operation, status, service).
C10_KeysAsStated ==
  \A g \in Callers :
    /\ call[g].nObs > 0 =>
         /\ call[g].obsKey.h.labels = <<"operation", "service">>
         /\ Matches(g, call[g].obsKey)
    /\ call[g].nInc > 0 =>
         /\ call[g].incKey.h.labels = <<"operation", "status", "service">>
         /\ Matches(g, call[g].incKey)

\* C10 amended: redis and mysql key the duration by (operation, service) and
\* the count by (operation, status, service); mongodb keys them by
\* (operation, collection, service) and (operation, collection, status,
\* service); in all three the values are as many as the label names of the
\* collector and each is the value of the label at its position.
C10_KeysPerPackage ==
  \A g \in Callers :
    /\ call[g].nObs > 0 =>
         /\ call[g].obsKey.h.labels =
              IF Cl(g).kind = "mongodb"
              THEN <<"operation", "collection", "service">>
              ELSE <<"operation", "service">>
         /\ Matches(g, call[g].obsKey)
    /\ call[g].nInc > 0 =>
         /\ call[g].incKey.h.labels =
              IF Cl(g).kind = "mongodb"
              THEN <<"operation", "collection", "status", "service">>
              ELSE <<"operation", "status", "service">>
         /\ Matches(g, call[g].incKey)

\* C10 witness: a redis call and counter series of it, keyed in three labels
C10_Witness ==
  \E g \in Callers :
    /\ Cl(g).kind = "redis"
    /\ call[g].nInc = 1
    /\ call[g].incKey.lv = <<"get", "error", "svc">>

\* the order of events of an instrumented operation
EventOrder == <<"start", "invoke", "return", "finish", "wrapper_return">>

\* C11: the events of an instrumented operation occur in the order start
\* time captured, driver call invoked, driver call returned, finish, wrapper
\* returns; nothing is observed before finish; finish observes exactly the
\* time from begin to finish, which is not negative and not less than the
\* time the driver call took, and increments the counter of the operation
\* and its outcome once.
C11_OrderAndDuration ==
  /\ Len(timed.events) <= Len(EventOrder)
  /\ \A i \in 1..Len(timed.events) : timed.events[i] = EventOrder[i]
  /\ \A i \in 1..Len(timed.at) - 1 : timed.at[i] <= timed.at[i + 1]
  /\ Len(timed.events) < 4 => observed = <<>> /\ counted = <<>>
  /\ Len(timed.events) >= 4 =>
       /\ Len(observed) = 1
       /\ observed[1].op = timed.op
       /\ observed[1].ms = timed.at[4] - timed.at[1]
       /\ observed[1].ms >= 0
       /\ observed[1].ms >= timed.at[3] - timed.at[2]
       /\ counted = <<[op |-> timed.op, status |-> Outcome(timed.err)]>>

\* C11 witness: a get whose driver call took 5 ms returned with a nil error;
\* 5 ms were observed and the ("get", "success") counter incremented once
C11_Witness ==
  /\ timed.pc = "returned"
  /\ timed.at[3] - timed.at[2] = 5
  /\ observed = <<[op |-> "get", ms |-> 5]>>
  /\ counted = <<[op |-> "get", status |-> "success"]>>

\* the substring test of the error taxonomy
HasText(err, sub) == \E i \in 1..Len(err.Message) : err.Message[i] = sub

\* C12: wrapError maps nil to nil, redis.Nil to not-found (404, "key not
\* found"), otherwise a text containing "connection refused" to server error
\* "connection refused", otherwise one containing "timeout" to server error
\* "operation timeout", and any other error to a server error with the
\* original text; every mapped error carries exactly one detail, the
\* operation; calling it again on the same arguments gives the same value.
C12_Taxonomy ==
  \A i \in 1..Len(wrapped) :
    LET err == wrapArgs.err
        r == wrapped[i]
    IN /\ r = wrapped[1]
       /\ (r = NoErr) <=> (err = NoErr)
       /\ err # NoErr =>
            /\ r.kind = "*errors.Error"
            /\ r.Details = <<wrapArgs.operation>>
            /\ IF err = RedisNil
               THEN r.Code = 404 /\ r.Message = <<"key not found">>
               ELSE IF HasText(err, "connection refused")
               THEN r.Code = 500 /\ r.Message = <<"connection refused">>
               ELSE IF HasText(err, "timeout")
               THEN r.Code = 500 /\ r.Message = <<"operation timeout">>
               ELSE r.Code = 500 /\ r.Message = err.Message

\* C12 witness: an error whose text has "timeout" before "connection
\* refused" was mapped, twice, to "connection refused"
C12_Witness ==
  /\ Len(wrapped) = 2
  /\ wrapArgs.err.Message = <<"timeout", "connection refused">>
  /\ wrapped[2].Message = <<"connection refused">>
  /\ wrapped[2].Details = <<wrapArgs.operation>>

\* the InitLogger calls that made a logger
Builders == {g \in Callers : initCall[g].built}

\* C13: under any interleaving of InitLogger calls at most one logger is
\* ever made, by the first call to lock mu; that call alone configures it,
\* applying each setting once from its own config, and has applied all of
\* them when it returns; a later call, whatever its config, applies nothing
\* and its steps leave the logger as it is; a logger that is not nil never
\* becomes nil.
C13_InitOnce ==
  /\ [](/\ loggers <= 1
        /\ (log # <<>>) <=> (loggers = 1)
        /\ \A g \in Callers :
             /\ initCall[g].built => initCall[g].ticket = 1
             /\ initCall[g].ticket > 1 =>
                  ~initCall[g].built /\ initCall[g].steps = {}
             /\ initCall[g].built /\ initCall[g].pc = "returned" =>
                  /\ initCall[g].steps = {"formatter", "level", "output"}
                  /\ log = [id |-> 1, formatter |-> "json",
                            level |-> ParseLevel(initCall[g].config.Level),
                            output |-> "stdout+file"])
  /\ [][/\ log # <<>> => log' # <<>>
        /\ \A g \in Callers :
             initCall[g].ticket > 1 /\ initCall'[g] # initCall[g] => log' = log]_vars

\* C13 witness: the first call to lock mu made and configured the logger and
\* returned; a second call, with another level, locked mu after it and
\* returned, and the logger still has the first call's level
C13_Witness ==
  \E g1, g2 \in Callers :
    /\ initCall[g1].built /\ initCall[g1].pc = "returned"
    /\ initCall[g2].ticket = 2 /\ initCall[g2].pc = "returned"
    /\ initCall[g2].config # NilConfig
    /\ initCall[g1].config # NilConfig
    /\ initCall[g2].config.Level # initCall[g1].config.Level
    /\ log.level = ParseLevel(initCall[g1].config.Level)

\* target is a non-nil *Error
NonNilError(target) == target \in ErrorValues

\* C14: e.Is(target) returns true when target is a non-nil *Error whose Code
\* equals e.Code, whatever the messages and details, and false for every
\* other target: the nil interface, a nil *Error, an error of another type.
C14_MatchByCode ==
  isResult # <<>> =>
    isResult[1] =
      IF NonNilError(isArgs.target) /\ isArgs.target.Code = isArgs.e.Code
      THEN "true" ELSE "false"

\* a WithTransaction call is over
TxOver(g) == txn[g].pc \in {"returned", "panicked"}

\* every begun transaction is finished exactly once, by the right call
TxFinishedOnce(g) ==
  /\ txn[g].fnCalls <= 1
  /\ txn[g].commits + txn[g].rollbacks <= 1
  /\ ~txn[g].began => txn[g].fnCalls = 0 /\ txn[g].commits + txn[g].rollbacks = 0
  /\ TxOver(g) /\ txn[g].began =>
       /\ txn[g].fnCalls = 1
       /\ txn[g].commits + txn[g].rollbacks = 1
       /\ (txn[g].commits = 1) <=> (txn[g].fnOut = "nil")
       /\ (txn[g].pc = "panicked") <=> (txn[g].fnOut = "panic")

HeldBy(m) ==
  {g \in Callers : /\ req[g].fields = m
                   /\ req[g].pc \in {"log_fill", "rec_fill", "log_send", "rec_send"}}
Queued(m) == Cardinality({i \in 1..Len(logChan) : logChan[i] = m})
InProc(m) == IF proc.pc \in {"log", "put"} /\ proc.fields = m THEN 1 ELSE 0

\* C16: every fields map made by the pool is in exactly one place: with one
\* request handler, queued once on logChan, with processLogs, or once in the
\* pool; so it is never in the pool while queued or being read, and never
\* put back twice.
C16_SingleOwner ==
  \A m \in 1..Len(fieldsOf) :
    Cardinality(HeldBy(m)) + Queued(m) + InProc(m) + requestFieldsPool[m] = 1

\* the requests whose values a record carries
WrittenFor(f) == {f[k].by : k \in FieldKeys} \ {0}

\* C17: every record logged, and every record put on logChan, carries values
\* written for one request only.
C17_NoStaleFields ==
  /\ \A i \in 1..Len(logged) : Cardinality(WrittenFor(logged[i].fields)) <= 1
  /\ \A r \in Requests :
       enqueued[r] # <<>> => WrittenFor(enqueued[r]) = {r}

\* C18: constructing redis clients leaves the package's DefaultConfig as it
\* was declared (EnableMetrics true), so a redis client made with a nil
\* config and a metrics client has metrics enabled, and each of its calls
\* that has finished passed the gate of finish.
C18_DefaultConfigUntouched ==
  /\ DefaultConfig["redis"] = TRUE
  /\ client.kind = "redis" /\ client.config = "DefaultConfig"
       /\ client.metrics # NoSink => EnableMetrics(client)
  /\ \A g \in Callers :
       /\ Cl(g).kind = "redis"
       /\ Cl(g).config = "DefaultConfig"
       /\ Cl(g).metrics # NoSink
       /\ call[g].nEnd = 1
       => call[g].gate = "on"

\* the log entries that carry the request id of request r
LoggedFor(r) == {i \in 1..Len(logged) : logged[i].fields["request_id"].by = r}

\* nothing is on its way to the log any more: logChan is empty, processLogs
\* waits on it, and no handler is between Get and its send
Drained ==
  /\ logChan = <<>>
  /\ proc.pc = "recv"
  /\ \A g \in Callers :
       req[g].pc \notin {"log_fill", "rec_fill", "log_send", "rec_send"}

\* C19: logChan never holds more than its capacity; no request is logged
\* twice; every log entry is the record its request put on logChan; and once
\* logChan is drained every record that was put on it has been logged.
C19_Lossless ==
  /\ Len(logChan) <= LogChanCap
  /\ \A r \in Requests : Cardinality(LoggedFor(r)) <= 1
  /\ \A i \in 1..Len(logged) :
       \E r \in Requests : logged[i].fields = enqueued[r]
  /\ Drained =>
       \A r \in Requests :
         enqueued[r] # <<>> =>
           \E i \in 1..Len(logged) : logged[i].fields = enqueued[r]

\* C20: a request whose downstream handler panicked is not cut off by the
\* process being stopped, the panic does not leave the middleware, and when
\* the middleware has returned the request was answered with 500, the record
\* it put on logChan carries its service, request id, error and stack, and
\* its timeout context is cancelled.
C20_PanicRecovered ==
  \A g \in Callers :
    req[g].outcome = "panic" =>
      /\ ~req[g].propagated
      /\ req[g].pc # "done" => ~fatal
      /\ req[g].pc = "done" =>
           /\ req[g].status = 500
           /\ req[g].ctx = "cancelled"
           /\ enqueued[req[g].id] # <<>>
           /\ \A k \in PanicKeys : enqueued[req[g].id][k].by = req[g].id

\* the positions in the log of the records that carry request r's id
RecordsOf(r) == {i \in 1..Len(logged) : logged[i].fields["request_id"].by = r}

\* C21: the record of a request that the middleware has finished is logged
\* at the level of the status the request ended with: Error for a status of
\* 500 or more (a recovered panic, answered 500, included), Warn for 400 to
\* 499, Info for any other status.
C21_LevelFromStatus ==
  \A g \in Callers :
    req[g].pc = "done" =>
      \A i \in RecordsOf(req[g].id) :
        logged[i].level = Level(req[g].status)

\* the downstream handler of g's request is running or has run
HandlerInvoked(g) == req[g].outcome # "none"

\* this step is g's request entering the middleware
Enters(g) == req[g].id' # req[g].id

\* C22: the gates act in the order path filter, limiter, handler. A request
\* to a disallowed path is answered 403 at entry, leaves the limiter's tokens
\* as they were and never has its handler invoked; a request to an allowed
\* path that the limiter refuses is answered 429 at entry and never has its
\* handler invoked; a request goes on to the handler only if its path is
\* allowed and it took a token, and a handler is invoked only for a request
\* that went on.
C22_GateOrder ==
  /\ [](\A g \in Callers :
          /\ req[g].pc \notin {"idle", "done"} \/ HandlerInvoked(g)
               => isPathAllowed(req[g].path)
          /\ req[g].pc # "idle" /\ ~isPathAllowed(req[g].path)
               => req[g].pc = "done" /\ req[g].status = 403
                    /\ ~HandlerInvoked(g))
  /\ [][\A g \in Callers :
          /\ Enters(g) =>
               /\ ~isPathAllowed(req'[g].path) =>
                    /\ limiter' = limiter
                    /\ req'[g].pc = "done" /\ req'[g].status = 403
               /\ isPathAllowed(req'[g].path) /\ limiter = 0 =>
                    /\ limiter' = 0
                    /\ req'[g].pc = "done" /\ req'[g].status = 429
               /\ req'[g].pc # "done" =>
                    /\ req'[g].pc = "next"
                    /\ isPathAllowed(req'[g].path)
                    /\ limiter > 0 /\ limiter' = limiter - 1
               /\ ~HandlerInvoked(g)'
          /\ ~Enters(g) /\ ~HandlerInvoked(g) /\ HandlerInvoked(g)' =>
               req[g].pc = "next"
          /\ ~Enters(g) /\ req[g].status \in {403, 429} /\ ~HandlerInvoked(g) =>
               ~HandlerInvoked(g)']_vars

\* one request was refused by the path filter with the limiter left as it
\* was, one was refused by the limiter, and the third went on to its handler
\* and was logged
C22_Witness ==
  /\ requests = 3
  /\ \E g, h \in Callers :
       /\ req[g].pc = "done" /\ req[g].status = 403 /\ ~isPathAllowed(req[g].path)
       /\ req[h].pc = "done" /\ req[h].status = 429 /\ isPathAllowed(req[h].path)
       /\ ~HandlerInvoked(g) /\ ~HandlerInvoked(h)
  /\ limiter = 0
  /\ \E i \in 1..Len(logged) : logged[i].fields["status"].val = 200

\* the sum of the values of the series of a vector
Total(vec) == Sum(vec, DOMAIN vec)

\* the value of a status-labelled counter summed over methods and paths
ByStatus(vec, s) == Sum(vec, {k \in DOMAIN vec : k[2] = s})

\* the goroutines whose request got status s from its handlers and stands at
\* one of pcs
Standing(s, pcs) ==
  {g \in Callers : /\ http[g].outcome = "returned"
                   /\ http[g].status = s
                   /\ http[g].pc \in pcs}

\* the middleware is built, enabled, and counts successes and failures
BothCounted ==
  /\ middleware.built
  /\ middleware.config.Enabled
  /\ middleware.config.EnableSuccessRate
  /\ middleware.config.EnableFailureRate

\* no request stands between its http_requests_total increment and its
\* success or failure increment
NoneHalfCounted == \A g \in Callers : http[g].pc \notin {"success", "failure"}

\* C23: with success and failure counting enabled, per status
\* http_requests_total counts each request that has returned from the
\* middleware, or has passed its increment, once; such a request of status
\* below 400 is counted once in http_requests_success_total and never in
\* http_requests_failure_total, one of status 400 or more once in
\* http_requests_failure_total and never in http_requests_success_total;
\* and when no request stands between the increments the total is the sum
\* of the success and failure counts.
C23_TotalIsSuccessPlusFailure ==
  BothCounted =>
    /\ \A s \in Statuses :
         /\ ByStatus(requestCounter, s) =
              responses[s]
                + Cardinality(Standing(s, {"success", "failure", "exit"}))
         /\ ByStatus(failureCounter, s) =
              IF s >= 400
              THEN responses[s] + Cardinality(Standing(s, {"exit"}))
              ELSE 0
    /\ Total(successCounter) =
         Sum([s \in Statuses |->
                IF s < 400
                THEN responses[s] + Cardinality(Standing(s, {"failure", "exit"}))
                ELSE 0], Statuses)
    /\ NoneHalfCounted =>
         Total(requestCounter) = Total(successCounter) + Total(failureCounter)

\* three requests have returned from the middleware, one with each status,
\* and the three counters have counted them
C23_Witness ==
  /\ BothCounted
  /\ \A g \in Callers : http[g].pc \in {"idle", "done"}
  /\ \A s \in Statuses : responses[s] = 1
  /\ Total(requestCounter) = 3
  /\ Total(successCounter) = 1
  /\ Total(failureCounter) = 2

\* the goroutines whose request entered with label values lv and is between
\* the entry and the exit of the middleware
Between(lv) ==
  {g \in Callers : http[g].pc \notin {"idle", "done"} /\ http[g].labels = lv}

\* the middleware is built, enabled, and keeps the gauge
GaugeKept ==
  /\ middleware.built
  /\ middleware.config.Enabled
  /\ middleware.config.EnableConcurrentRequests

\* C24: with the gauge enabled, http_concurrent_requests of each (method,
\* path) is the number of requests that entered with those labels and have
\* not left the middleware, by return or by panic; so it is never negative,
\* and it is 0 when no request is in the middleware.
C24_GaugeIsInFlight ==
  GaugeKept =>
    \A lv \in LabelValues :
      /\ concurrentRequests[lv] = Cardinality(Between(lv))
      /\ concurrentRequests[lv] >= 0
      /\ (\A g \in Callers : http[g].pc \in {"idle", "done"})
           => concurrentRequests[lv] = 0

\* one request has left the middleware by a handler's panic, another whose
\* handler rewrote its path has left it by return, and the gauge is back at 0
C24_Witness ==
  /\ GaugeKept
  /\ \E g, h \in Callers :
       /\ http[g].pc = "done" /\ http[g].outcome = "panic"
       /\ http[h].pc = "done" /\ http[h].outcome = "returned"
       /\ http[h].path # http[h].labels[2]
  /\ \A lv \in LabelValues : concurrentRequests[lv] = 0

====
